---- MODULE Spec2Model ----
(***************************************************************************)
(* Transaction / attachment matching (src/src/match.py).                   *)
(*                                                                         *)
(* The matcher is a set of pure functions.  Each function is an operator   *)
(* computed the way the Python code computes it, and each specification    *)
(* below draws the arguments of one call from a bounded set (Init) and     *)
(* applies the function (the actions).                                     *)
(*                                                                         *)
(* Representation of Python values:                                        *)
(*   - a str is a sequence of one-character strings;                       *)
(*   - None, as a direct argument, is the value None below; in a dict a    *)
(*     key holding None is modelled as an absent key (dict.get and the     *)
(*     `field in data and data[field]` tests do not tell them apart);      *)
(*   - an amount is an integer number of millionths (Unit = 10^-6), so     *)
(*     that every threshold of the code (0.001, 0.002, 0.01, 0.011, 0.99)  *)
(*     is exact.  Arithmetic is exact decimal arithmetic: the rounding of  *)
(*     IEEE doubles is not modelled.                                       *)
(***************************************************************************)
EXTENDS Integers, Sequences, FiniteSets, TLC

VARIABLES args, ret, pc, scores

vars == <<args, ret, pc, scores>>

(***************************************************************************)
(* Python str primitives                                                   *)
(***************************************************************************)
None == <<"None">>

\* `not s` is false exactly for a non-empty str
Truthy(s) == s # None /\ s # <<>>

UpperChars == <<"A","B","C","D","E","F","G","H","I","J","K","L","M",
                "N","O","P","Q","R","S","T","U","V","W","X","Y","Z">>
LowerChars == <<"a","b","c","d","e","f","g","h","i","j","k","l","m",
                "n","o","p","q","r","s","t","u","v","w","x","y","z">>

IsSpace(c) == c \in {" ", "\t"}

ToUpper == [c \in {LowerChars[i] : i \in 1..26} |->
               UpperChars[CHOOSE i \in 1..26 : LowerChars[i] = c]]
ToLower == [c \in {UpperChars[i] : i \in 1..26} |->
               LowerChars[CHOOSE i \in 1..26 : UpperChars[i] = c]]

UpperChar(c) == IF c \in DOMAIN ToUpper THEN ToUpper[c] ELSE c
LowerChar(c) == IF c \in DOMAIN ToLower THEN ToLower[c] ELSE c

\* str.upper() / str.lower()
Upper(s) == [i \in 1..Len(s) |-> UpperChar(s[i])]
Lower(s) == [i \in 1..Len(s) |-> LowerChar(s[i])]

\* re.sub(r'\s+', '', s)
RemoveWhitespace(s) == SelectSeq(s, LAMBDA c : ~IsSpace(c))

\* re.sub(r'^0+', '', s)
RECURSIVE StripLeadingZeros(_)
StripLeadingZeros(s) ==
    IF s # <<>> /\ Head(s) = "0" THEN StripLeadingZeros(Tail(s)) ELSE s

\* s.startswith(p)
StartsWith(s, p) == Len(s) >= Len(p) /\ SubSeq(s, 1, Len(p)) = p

\* p in s  (substring test; the empty str is in every str)
IsSubstr(p, s) ==
    \E i \in 0..(Len(s) - Len(p)) : SubSeq(s, i + 1, i + Len(p)) = p

\* s.split(): the maximal runs of non-whitespace characters, in order
RECURSIVE Split(_)
Split(s) ==
    IF s = <<>> THEN <<>>
    ELSE IF IsSpace(Head(s)) THEN Split(Tail(s))
    ELSE LET n == CHOOSE k \in 1..Len(s) :
                     /\ \A j \in 1..k : ~IsSpace(s[j])
                     /\ (k = Len(s) \/ IsSpace(s[k + 1]))
         IN  <<SubSeq(s, 1, n)>> \o Split(SubSeq(s, n + 1, Len(s)))

\* ' '.join(ws)
RECURSIVE Join(_)
Join(ws) ==
    IF ws = <<>> THEN <<>>
    ELSE IF Len(ws) = 1 THEN ws[1]
    ELSE ws[1] \o <<" ">> \o Join(Tail(ws))

\* s.strip() is empty
IsBlank(s) == \A i \in 1..Len(s) : IsSpace(s[i])

(***************************************************************************)
(* _normalize_reference                                                    *)
(***************************************************************************)
RF == <<"R", "F">>

\* re.sub(r'^0+', '', s) or '0'
StripZerosOrZero(s) ==
    IF StripLeadingZeros(s) = <<>> THEN <<"0">> ELSE StripLeadingZeros(s)

_normalize_reference(reference) ==
    IF ~Truthy(reference) \/ IsBlank(reference) THEN <<>>
    ELSE LET normalized == RemoveWhitespace(Upper(reference))
         IN  IF StartsWith(normalized, RF)
             THEN RF \o StripZerosOrZero(SubSeq(normalized, 3, Len(normalized)))
             ELSE StripZerosOrZero(normalized)

(***************************************************************************)
(* Bounded strings                                                         *)
(***************************************************************************)
RECURSIVE StringsUpTo(_, _)
StringsUpTo(chars, n) ==
    IF n = 0 THEN {<<>>}
    ELSE LET shorter == StringsUpTo(chars, n - 1)
         IN  shorter \cup {Append(s, c) : s \in shorter, c \in chars}

MaxRefLen == 4
RefChars == {"0", "1", "R", "f", " "}
RefStrings == StringsUpTo(RefChars, MaxRefLen)

(***************************************************************************)
(* SpecRef: _normalize_reference applied once and then to its own result   *)
(***************************************************************************)
InitRef ==
    /\ args \in {[reference |-> r] : r \in RefStrings \cup {None}}
    /\ ret = <<>>
    /\ pc = "start"
    /\ scores = <<>>

NormalizeOnce ==
    /\ pc = "start"
    /\ ret' = <<_normalize_reference(args.reference)>>
    /\ pc' = "once"
    /\ UNCHANGED <<args, scores>>

NormalizeAgain ==
    /\ pc = "once"
    /\ ret' = Append(ret, _normalize_reference(ret[1]))
    /\ pc' = "twice"
    /\ UNCHANGED <<args, scores>>

NextRef == NormalizeOnce \/ NormalizeAgain

SpecRef == InitRef /\ [][NextRef]_vars

(***************************************************************************)
(* _normalize_name, _names_match, _calculate_name_specificity              *)
(***************************************************************************)
_normalize_name(name) ==
    IF ~Truthy(name) THEN <<>> ELSE Join(Split(Lower(name)))

\* set(norm.split())
Words(norm) == {Split(norm)[i] : i \in 1..Len(Split(norm))}

Min(a, b) == IF a <= b THEN a ELSE b
Max(a, b) == IF a >= b THEN a ELSE b
Abs(a) == IF a < 0 THEN -a ELSE a

suffixes ==
    { <<"o","y">>, <<"l","t","d">>, <<"c","o","r","p">>, <<"i","n","c">>,
      <<"t","m","i">>, <<"a","b">>, <<"a","s">>, <<"g","m","b","h">>,
      <<"c","o","m","p","a","n","y">>, <<"c","o">> }

\* The word rules of _names_match (lines 71-99), on the two word sets.
WordsMatch(words1, words2) ==
    LET common_words == words1 \cap words2
        total_words  == Min(Cardinality(words1), Cardinality(words2))
        non_common1  == words1 \ common_words
        non_common2  == words2 \ common_words
    IN  IF Cardinality(words1) = 0 \/ Cardinality(words2) = 0 THEN FALSE
        ELSE IF Cardinality(common_words) >= 2
             THEN 2 * Cardinality(common_words) >= total_words
        ELSE IF Cardinality(common_words) = 1 /\ total_words <= 2
             THEN \/ Cardinality(non_common1) = 0
                  \/ Cardinality(non_common2) = 0
                  \/ /\ Cardinality(non_common1) = 1
                     /\ Cardinality(non_common2) = 1
                     /\ \/ \E w \in non_common1 : Lower(w) \in suffixes
                        \/ \E w \in non_common2 : Lower(w) \in suffixes
        ELSE FALSE

\* A matcher whose containment test looks in one direction only.
names_match_one_way(name1, name2) ==
    IF ~Truthy(name1) \/ ~Truthy(name2) THEN FALSE
    ELSE LET norm1 == _normalize_name(name1)
             norm2 == _normalize_name(name2)
         IN  IF norm1 = norm2 THEN TRUE
             ELSE IF IsSubstr(norm1, norm2) THEN TRUE
             ELSE WordsMatch(Words(norm1), Words(norm2))

_names_match(name1, name2) ==
    IF ~Truthy(name1) \/ ~Truthy(name2) THEN FALSE
    ELSE LET norm1 == _normalize_name(name1)
             norm2 == _normalize_name(name2)
         IN  IF norm1 = norm2 THEN TRUE
             ELSE IF IsSubstr(norm1, norm2) \/ IsSubstr(norm2, norm1) THEN TRUE
             ELSE WordsMatch(Words(norm1), Words(norm2))

\* A specificity that ranks the exact match above the containment.
name_specificity_exact_first(name1, name2) ==
    IF ~Truthy(name1) \/ ~Truthy(name2) THEN 0
    ELSE LET norm1 == _normalize_name(name1)
             norm2 == _normalize_name(name2)
         IN  IF norm1 = norm2 THEN 5
             ELSE IF IsSubstr(norm1, norm2) \/ IsSubstr(norm2, norm1) THEN 4
             ELSE 0

_calculate_name_specificity(name1, name2) ==
    IF ~Truthy(name1) \/ ~Truthy(name2) THEN 0
    ELSE LET norm1 == _normalize_name(name1)
             norm2 == _normalize_name(name2)
         IN  IF norm1 = norm2 THEN 4
             ELSE IF IsSubstr(norm1, norm2) \/ IsSubstr(norm2, norm1)
             THEN LET longer_name  == IF Len(norm2) > Len(norm1) THEN norm2 ELSE norm1
                      shorter_name == IF Len(norm1) < Len(norm2) THEN norm1 ELSE norm2
                  IN  IF IsSubstr(shorter_name, longer_name) THEN 5
                      \* overlap_ratio > 0.75, with the ratio of the two lengths
                      ELSE IF 4 * Min(Len(norm1), Len(norm2)) > 3 * Max(Len(norm1), Len(norm2))
                           THEN 3
                           ELSE 2
             ELSE 0

(***************************************************************************)
(* SpecNames: _names_match called on a pair of names and on the swapped    *)
(* pair                                                                    *)
(***************************************************************************)
MaxNameLen == 4
NameChars == {"a", "B", " "}
NameStrings == StringsUpTo(NameChars, MaxNameLen)

InitNames ==
    /\ args \in {[name1 |-> a, name2 |-> b] :
                    a \in NameStrings \cup {None}, b \in NameStrings \cup {None}}
    /\ ret = <<>>
    /\ pc = "start"
    /\ scores = <<>>

NamesMatch ==
    /\ pc = "start"
    /\ ret' = <<_names_match(args.name1, args.name2)>>
    /\ pc' = "matched"
    /\ UNCHANGED <<args, scores>>

NamesMatchSwapped ==
    /\ pc = "matched"
    /\ ret' = Append(ret, _names_match(args.name2, args.name1))
    /\ pc' = "swapped"
    /\ UNCHANGED <<args, scores>>

NextNames == NamesMatch \/ NamesMatchSwapped

SpecNames == InitNames /\ [][NextNames]_vars

(***************************************************************************)
(* Claims about the reference and name helpers                             *)
(***************************************************************************)

\* C4: reference normalization is idempotent: normalizing a normalized
\* reference gives it back unchanged, also when leading zeros precede RF.
C4_NormalizeIdempotent ==
    pc = "twice" => ret[2] = ret[1]

\* C5: names_match is false whenever either name is empty before
\* normalization or becomes empty after normalization.
C5_EmptyNameNeverMatches ==
    (pc = "matched" /\ (_normalize_name(args.name1) = <<>> \/ _normalize_name(args.name2) = <<>>))
        => ret[1] = FALSE

\* C8: names_match is symmetric: names_match(a, b) = names_match(b, a)
\* for all names a and b.
C8_NamesMatchSymmetric ==
    pc = "swapped" => ret[1] = ret[2]

\* C8 witness: a pair matched by a word rule only (no equality, no
\* containment), compared in both orders.
C8_Witness ==
    /\ pc = "swapped"
    /\ ret[1] = TRUE
    /\ Truthy(args.name1) /\ Truthy(args.name2)
    /\ _normalize_name(args.name1) # _normalize_name(args.name2)
    /\ ~IsSubstr(_normalize_name(args.name1), _normalize_name(args.name2))
    /\ ~IsSubstr(_normalize_name(args.name2), _normalize_name(args.name1))
    /\ Cardinality(Words(_normalize_name(args.name1)) \cap Words(_normalize_name(args.name2))) = 1
    /\ Words(_normalize_name(args.name1)) \ Words(_normalize_name(args.name2)) # {}
    /\ Words(_normalize_name(args.name2)) \ Words(_normalize_name(args.name1)) # {}

(***************************************************************************)
(* datetime.strptime(s, '%Y-%m-%d') and the day count of a date            *)
(***************************************************************************)
DigitChars == <<"0","1","2","3","4","5","6","7","8","9">>

IsDigit(c) == \E i \in 1..10 : DigitChars[i] = c
DigitValue(c) == (CHOOSE i \in 1..10 : DigitChars[i] = c) - 1

AllDigits(s) == \A i \in 1..Len(s) : IsDigit(s[i])

RECURSIVE ToInt(_)
ToInt(s) ==
    IF s = <<>> THEN 0
    ELSE 10 * ToInt(SubSeq(s, 1, Len(s) - 1)) + DigitValue(s[Len(s)])

\* The positions of the '-' characters of s, in order.
DashPositions(s) == SelectSeq([i \in 1..Len(s) |-> i], LAMBDA i : s[i] = "-")

IsLeap(y) == (y % 4 = 0 /\ y % 100 # 0) \/ y % 400 = 0

DaysInMonth(y, m) ==
    IF m = 2 THEN (IF IsLeap(y) THEN 29 ELSE 28)
    ELSE IF m \in {4, 6, 9, 11} THEN 30 ELSE 31

\* The fields of a str that strptime accepts for '%Y-%m-%d': four digits,
\* '-', a month 1..12 of one or two digits, '-', a day of one or two digits
\* that exists in that month.  Any other str raises ValueError.
DateFields(s) ==
    LET d == DashPositions(s)
    IN  [y |-> SubSeq(s, 1, d[1] - 1),
         m |-> SubSeq(s, d[1] + 1, d[2] - 1),
         d |-> SubSeq(s, d[2] + 1, Len(s))]

Parses(s) ==
    /\ s # None
    /\ Len(DashPositions(s)) = 2
    /\ LET f == DateFields(s)
       IN  /\ Len(f.y) = 4 /\ AllDigits(f.y) /\ ToInt(f.y) >= 1
           /\ Len(f.m) \in {1, 2} /\ AllDigits(f.m) /\ ToInt(f.m) \in 1..12
           /\ Len(f.d) \in {1, 2} /\ AllDigits(f.d)
           /\ ToInt(f.d) \in 1..DaysInMonth(ToInt(f.y), ToInt(f.m))

RECURSIVE DaysBeforeMonth(_, _)
DaysBeforeMonth(y, m) ==
    IF m = 1 THEN 0 ELSE DaysBeforeMonth(y, m - 1) + DaysInMonth(y, m - 1)

\* date.toordinal(): the number of the day, day 1 being 0001-01-01
ToOrdinal(y, m, d) ==
    365 * (y - 1) + ((y - 1) \div 4) - ((y - 1) \div 100) + ((y - 1) \div 400)
      + DaysBeforeMonth(y, m) + d

\* The day number of a str that parses.
DayNumber(s) ==
    LET f == DateFields(s) IN ToOrdinal(ToInt(f.y), ToInt(f.m), ToInt(f.d))

(***************************************************************************)
(* _are_dates_compatible                                                   *)
(***************************************************************************)
tolerance_days == 15

date_fields == <<"due_date", "invoicing_date", "receiving_date">>

\* The loop of lines 182-192 from field number i on: True at the first
\* field within the tolerance, a field that does not parse is skipped.
RECURSIVE DateLoop(_, _, _, _)
DateLoop(tx_dt, att_data, tolerance, i) ==
    IF i > Len(date_fields) THEN FALSE
    ELSE LET v == att_data[date_fields[i]]
         IN  IF Truthy(v) /\ Parses(v) /\ Abs(tx_dt - DayNumber(v)) <= tolerance
             THEN TRUE
             ELSE DateLoop(tx_dt, att_data, tolerance, i + 1)

\* A loop in which a field that does not parse ends the check.
RECURSIVE DateLoopStopsAtInvalid(_, _, _, _)
DateLoopStopsAtInvalid(tx_dt, att_data, tolerance, i) ==
    IF i > Len(date_fields) THEN FALSE
    ELSE LET v == att_data[date_fields[i]]
         IN  IF Truthy(v) /\ ~Parses(v) THEN FALSE
             ELSE IF Truthy(v) /\ Abs(tx_dt - DayNumber(v)) <= tolerance
             THEN TRUE
             ELSE DateLoopStopsAtInvalid(tx_dt, att_data, tolerance, i + 1)

are_dates_compatible_stops_at_invalid(tx_date, att_data) ==
    IF ~Parses(tx_date) THEN FALSE
    ELSE DateLoopStopsAtInvalid(DayNumber(tx_date), att_data, tolerance_days, 1)

\* with the default tolerance_days
_are_dates_compatible(tx_date, att_data) ==
    IF ~Parses(tx_date) THEN FALSE
    ELSE DateLoop(DayNumber(tx_date), att_data, tolerance_days, 1)

(***************************************************************************)
(* SpecDates: _are_dates_compatible on a transaction date and the three    *)
(* date fields of an attachment                                            *)
(***************************************************************************)
\* n written with `width` digits
RECURSIVE Digits(_, _)
Digits(n, width) ==
    IF width = 0 THEN <<>>
    ELSE Append(Digits(n \div 10, width - 1), DigitChars[(n % 10) + 1])

DateStr(y, m, d) == Digits(y, 4) \o <<"-">> \o Digits(m, 2) \o <<"-">> \o Digits(d, 2)

Invalid == <<"i","n","v","a","l","i","d">>

\* Calendar days of June to August 2024, k days after 2024-07-15.
DateAt(k) ==
    LET md == CHOOSE md \in (6..8) \X (1..31) :
                  /\ md[2] <= DaysInMonth(2024, md[1])
                  /\ ToOrdinal(2024, md[1], md[2]) = ToOrdinal(2024, 7, 15) + k
    IN  DateStr(2024, md[1], md[2])

MaxDayOffset == 17
DayOffsets == {-MaxDayOffset, -16, -15, -14, 0, 14, 15, 16, MaxDayOffset}

TxDates == {DateAt(0), DateAt(1), Invalid, DateStr(2024, 2, 30), <<"2","0","2","4","-","7","-","1","5">>}
AttDates == {DateAt(k) : k \in DayOffsets} \cup {None, <<>>, Invalid, DateStr(2024, 6, 31)}

InitDates ==
    /\ args \in {[tx_date  |-> t,
                  att_data |-> [due_date |-> d, invoicing_date |-> i, receiving_date |-> r]] :
                    t \in TxDates, d \in AttDates, i \in AttDates, r \in AttDates}
    /\ ret = <<>>
    /\ pc = "start"
    /\ scores = <<>>

AreDatesCompatible ==
    /\ pc = "start"
    /\ ret' = <<_are_dates_compatible(args.tx_date, args.att_data)>>
    /\ pc' = "done"
    /\ UNCHANGED <<args, scores>>

NextDates == AreDatesCompatible

SpecDates == InitDates /\ [][NextDates]_vars

\* The number of days between the transaction date and a date field that
\* both parse.
DaysApart(f) == Abs(DayNumber(args.tx_date) - DayNumber(args.att_data[f]))

Usable(f) == Truthy(args.att_data[f]) /\ Parses(args.att_data[f])

\* C9: are_dates_compatible with the default tolerance is true if and only
\* if tx_date parses and some date field is present, non-null, parses and
\* lies at most 15 days from tx_date in either direction; an unparsable
\* field does not prevent a later field from qualifying.
C9_DatesCompatibleIff ==
    pc = "done" =>
        (ret[1] = (/\ Parses(args.tx_date)
                   /\ \E f \in {"due_date", "invoicing_date", "receiving_date"} :
                          Usable(f) /\ DaysApart(f) <= 15))

\* C9 witness: the first field does not parse, the second is 16 days off
\* and the third, exactly 15 days off, makes the dates compatible.
C9_Witness ==
    /\ pc = "done"
    /\ ret[1] = TRUE
    /\ args.tx_date = DateStr(2024, 7, 15)
    /\ args.att_data.due_date = Invalid
    /\ args.att_data.invoicing_date = DateStr(2024, 7, 31)
    /\ args.att_data.receiving_date = DateStr(2024, 6, 30)

(***************************************************************************)
(* _get_attachment_counterparty_names                                      *)
(***************************************************************************)
example_company == <<"e","x","a","m","p","l","e"," ","c","o","m","p","a","n","y">>

counterparty_fields == <<"issuer", "recipient", "supplier">>

\* The non-empty values of issuer, recipient, supplier, in that order,
\* without those that contain 'example company' once in lower case.
_get_attachment_counterparty_names(attachment) ==
    LET data  == attachment.data
        names == SelectSeq([i \in 1..Len(counterparty_fields) |-> data[counterparty_fields[i]]],
                           LAMBDA name : Truthy(name))
    IN  SelectSeq(names, LAMBDA name : ~IsSubstr(example_company, Lower(name)))

(***************************************************************************)
(* The amount gate of _calculate_match_score                               *)
(***************************************************************************)
\* One unit of amount: amounts are integers counting millionths.
Unit == 1000000

\* The numbers of the code, in millionths.
Thousandth      == 1000      \* 0.001
Cent            == 10000     \* 0.01
NinetyNineCents == 990000    \* 0.99
StrictTolerance == 2000      \* 0.002
LenientTolerance == 11000    \* 0.011

RECURSIVE TrailingZeros(_)
TrailingZeros(n) == IF n % 10 = 0 THEN 1 + TrailingZeros(n \div 10) ELSE 0

RECURSIVE NumDigits(_)
NumDigits(n) == IF n < 10 THEN 1 ELSE 1 + NumDigits(n \div 10)

\* len(str(x).split('.')[-1]) if '.' in str(x) else 0, for x >= 0 counted in
\* millionths.  str of a float shows a whole number as 'n.0', a number below
\* 0.0001 in exponent form ('1e-05', '1.5e-05': the piece after the '.'
\* then holds the other significant digits and 'e-05'), and any other
\* number with its decimals without trailing zeros.
Decimals(x) ==
    IF x % Unit = 0 THEN 1
    ELSE IF x < 100
         THEN LET sig == NumDigits(x) - TrailingZeros(x)
              IN  IF sig = 1 THEN 0 ELSE (sig - 1) + 4
    ELSE 6 - TrailingZeros(x % Unit)

\* abs((x * 100) % 1) < 0.001
IsRound(x) == (x * 100) % Unit < Thousandth

\* abs(x % 1) < 0.001
IsWhole(x) == x % Unit < Thousandth

\* abs(x % 1 - 0.99) < 0.001
EndsIn99(x) == Abs((x % Unit) - NinetyNineCents) < Thousandth

is_precision_mismatch(tx_abs, att_abs) ==
    LET amount_diff  == Abs(att_abs - tx_abs)
        tx_decimals  == Decimals(tx_abs)
        att_decimals == Decimals(att_abs)
        is_banking_pattern ==
            \/ EndsIn99(tx_abs) /\ IsWhole(att_abs)
            \/ EndsIn99(att_abs) /\ IsWhole(tx_abs)
    IN  IF Abs(tx_decimals - att_decimals) > 3 /\ Max(tx_decimals, att_decimals) > 4
        THEN TRUE
        ELSE /\ Abs(amount_diff - Cent) < Thousandth
             /\ IsRound(tx_abs) /\ IsRound(att_abs)
             /\ ~is_banking_pattern
             /\ (IsWhole(tx_abs) \/ IsWhole(att_abs))

\* tolerance of lines 269-272
Tolerance(tx_abs, att_abs) ==
    IF is_precision_mismatch(tx_abs, att_abs) THEN StrictTolerance ELSE LenientTolerance

\* A gate that compares the signed amounts.
AmountMatchesSigned(tx_amount, att_amount) ==
    Abs(att_amount - tx_amount) <= Tolerance(Abs(tx_amount), Abs(att_amount))

\* not (amount_diff > tolerance), lines 233-275
AmountMatches(tx_amount, att_amount) ==
    Abs(Abs(att_amount) - Abs(tx_amount)) <= Tolerance(Abs(tx_amount), Abs(att_amount))

(***************************************************************************)
(* _calculate_match_score                                                  *)
(***************************************************************************)
\* A loop that counts every name that matches, whatever its specificity.
RECURSIVE CounterpartyLoopCountsEveryMatch(_, _, _, _, _)
CounterpartyLoopCountsEveryMatch(tx_contact, att_counterparties, i, best_match_score, has_counterparty_match) ==
    IF i > Len(att_counterparties) THEN <<best_match_score, has_counterparty_match>>
    ELSE LET specificity_score == _calculate_name_specificity(tx_contact, att_counterparties[i])
         IN  IF _names_match(tx_contact, att_counterparties[i])
             THEN CounterpartyLoopCountsEveryMatch(tx_contact, att_counterparties, i + 1,
                                                   Max(specificity_score, best_match_score), TRUE)
             ELSE CounterpartyLoopCountsEveryMatch(tx_contact, att_counterparties, i + 1,
                                                   best_match_score, has_counterparty_match)

\* The loop of lines 288-294 from counterparty number i on; the result is
\* <<best_match_score, has_counterparty_match>>.
RECURSIVE CounterpartyLoop(_, _, _, _, _)
CounterpartyLoop(tx_contact, att_counterparties, i, best_match_score, has_counterparty_match) ==
    IF i > Len(att_counterparties) THEN <<best_match_score, has_counterparty_match>>
    ELSE LET specificity_score == _calculate_name_specificity(tx_contact, att_counterparties[i])
         IN  IF /\ _names_match(tx_contact, att_counterparties[i])
                /\ specificity_score > best_match_score
             THEN CounterpartyLoop(tx_contact, att_counterparties, i + 1, specificity_score, TRUE)
             ELSE CounterpartyLoop(tx_contact, att_counterparties, i + 1,
                                   best_match_score, has_counterparty_match)

\* The points of lines 298-307 for a best_match_score.
CounterpartyPoints(best_match_score) ==
    IF best_match_score >= 5 THEN 5
    ELSE IF best_match_score >= 4 THEN 4
    ELSE IF best_match_score >= 3 THEN 3
    ELSE IF best_match_score >= 2 THEN 2
    ELSE 1

\* The result is <<score, has_counterparty_match>>.
_calculate_match_score(transaction, attachment) ==
    LET tx_date    == transaction.date
        tx_contact == transaction.contact
        att_data   == attachment.data
        att_counterparties == _get_attachment_counterparty_names(attachment)
    IN  IF "total_amount" \notin DOMAIN att_data \/ "amount" \notin DOMAIN transaction
        THEN <<0, FALSE>>
        ELSE IF ~AmountMatches(transaction.amount, att_data.total_amount)
        THEN <<0, FALSE>>
        ELSE LET date_points ==
                     IF Truthy(tx_date) /\ _are_dates_compatible(tx_date, att_data)
                     THEN 2 ELSE 0
                 best == CounterpartyLoop(tx_contact, att_counterparties, 1, 0, FALSE)
             IN  IF Truthy(tx_contact)
                 THEN IF best[2]
                      THEN <<3 + date_points + CounterpartyPoints(best[1]), TRUE>>
                      ELSE <<3 + date_points, FALSE>>
                 ELSE <<3 + date_points + 1, TRUE>>

(***************************************************************************)
(* SpecScore: _calculate_match_score on one transaction and one attachment *)
(***************************************************************************)
JaneDoe       == <<"J","a","n","e"," ","D","o","e">>
JaneDoeSpaced == <<" ","j","a","n","e"," "," ","D","O","E">>
JaneDoeDesign == <<"J","a","n","e"," ","D","o","e"," ","D","e","s","i","g","n">>
DoeJane       == <<"D","o","e"," ","J","a","n","e">>
JaneOy        == <<"J","a","n","e"," ","O","y">>
JohnSmith     == <<"J","o","h","n"," ","S","m","i","t","h">>
ExampleCompanyOy ==
    <<"E","x","a","m","p","l","e"," ","C","o","m","p","a","n","y"," ","O","y">>
Blank         == <<" ">>

MaxAmountSteps == 8

\* 0.98, 0.985, 0.99, ... in steps of half a cent
AmountGrid == {980000 + 5000 * k : k \in 0..MaxAmountSteps}

\* The empty dict
NoFields == [f \in {} |-> None]

TxAmountFields ==
    {NoFields} \cup {[amount |-> a] : a \in {-1000000, 1000000, 990000, 980000}}

AttAmountFields ==
    {NoFields} \cup {[total_amount |-> a] : a \in AmountGrid \cup {1003210, -1000000}}

ScoreTransactions ==
    {am @@ [date |-> d, contact |-> c, reference |-> None] :
        am \in TxAmountFields,
        d  \in {None, DateStr(2024, 7, 15), Invalid},
        c  \in {None, <<>>, Blank, JaneDoe, JohnSmith, JaneDoeDesign}}

ScoreAttachments ==
    {[data |-> am @@ [reference |-> None, due_date |-> d, invoicing_date |-> None,
                      receiving_date |-> None, issuer |-> i, recipient |-> None,
                      supplier |-> su]] :
        am \in AttAmountFields,
        d  \in {None, DateStr(2024, 7, 30), DateStr(2024, 7, 31)},
        i  \in {None, ExampleCompanyOy, JaneDoeDesign},
        su \in {None, JaneDoeSpaced, DoeJane, JaneOy, JohnSmith}}

InitScore ==
    /\ args \in {[transaction |-> t, attachment |-> a] :
                    t \in ScoreTransactions, a \in ScoreAttachments}
    /\ ret = <<>>
    /\ pc = "start"
    /\ scores = <<>>

CalculateMatchScore ==
    /\ pc = "start"
    /\ ret' = _calculate_match_score(args.transaction, args.attachment)
    /\ pc' = "scored"
    /\ UNCHANGED <<args, scores>>

NextScore == CalculateMatchScore

SpecScore == InitScore /\ [][NextScore]_vars

(***************************************************************************)
(* find_attachment, find_transaction                                       *)
(*                                                                         *)
(* Both return one of the candidates of the list, or None: the operators   *)
(* give the position of the returned candidate in the list, 0 for None.    *)
(***************************************************************************)
\* The loop of lines 347-350 (395-398) from candidate number i on:
\* the first candidate with a non-empty reference that normalizes to
\* ref_norm, 0 when the loop ends without returning.
RECURSIVE ReferenceLoop(_, _, _)
ReferenceLoop(ref_norm, refs, i) ==
    IF i > Len(refs) THEN 0
    ELSE IF Truthy(refs[i]) /\ _normalize_reference(refs[i]) = ref_norm THEN i
    ELSE ReferenceLoop(ref_norm, refs, i + 1)

\* A reference scan that goes on to the last matching candidate.
ReferenceMatchLast(ref, refs) ==
    IF Truthy(ref) /\ \E i \in 1..Len(refs) :
                          Truthy(refs[i]) /\ _normalize_reference(refs[i]) = _normalize_reference(ref)
    THEN CHOOSE i \in 1..Len(refs) :
             /\ Truthy(refs[i]) /\ _normalize_reference(refs[i]) = _normalize_reference(ref)
             /\ \A j \in (i + 1)..Len(refs) :
                    ~(Truthy(refs[j]) /\ _normalize_reference(refs[j]) = _normalize_reference(ref))
    ELSE 0

\* PRIORITY 1 for a queried reference and the candidates' references
ReferenceMatch(ref, refs) ==
    IF Truthy(ref) THEN ReferenceLoop(_normalize_reference(ref), refs, 1) ELSE 0

\* score >= 5 and has_counterparty_match
Kept(result) == result[1] >= 5 /\ result[2]

\* The loop of lines 355-360 (403-408): the pairs <<position, score>> of
\* the candidates kept, in input order; results[i] is the result of
\* _calculate_match_score for candidate i.
KeptCandidates(results) ==
    LET all == [i \in 1..Len(results) |-> <<i, results[i][1]>>]
    IN  SelectSeq(all, LAMBDA c : Kept(results[c[1]]))

\* An insertion that puts c before the candidates of equal score.
RECURSIVE InsertByScoreUnstable(_, _)
InsertByScoreUnstable(sorted, c) ==
    IF sorted = <<>> THEN <<c>>
    ELSE IF Head(sorted)[2] > c[2]
         THEN <<Head(sorted)>> \o InsertByScoreUnstable(Tail(sorted), c)
    ELSE <<c>> \o sorted

\* list.sort(key=lambda x: x[1], reverse=True) is stable: candidates of equal
\* score keep their order.  Insertion of c into a list sorted that way.
RECURSIVE InsertByScore(_, _)
InsertByScore(sorted, c) ==
    IF sorted = <<>> THEN <<c>>
    ELSE IF Head(sorted)[2] >= c[2] THEN <<Head(sorted)>> \o InsertByScore(Tail(sorted), c)
    ELSE <<c>> \o sorted

RECURSIVE SortByScore(_)
SortByScore(candidates) ==
    IF candidates = <<>> THEN <<>>
    ELSE InsertByScore(SortByScore(SubSeq(candidates, 1, Len(candidates) - 1)),
                       candidates[Len(candidates)])

\* PRIORITY 2 for the results of _calculate_match_score on the candidates
BestCandidate(results) ==
    LET candidates == KeptCandidates(results)
    IN  IF candidates # <<>> THEN SortByScore(candidates)[1][1] ELSE 0

\* The results of _calculate_match_score in the loop of lines 355-356, one
\* for each attachment.
RECURSIVE AttachmentScores(_, _)
AttachmentScores(transaction, attachments) ==
    IF attachments = <<>> THEN <<>>
    ELSE <<_calculate_match_score(transaction, Head(attachments))>>
           \o AttachmentScores(transaction, Tail(attachments))

\* The results of _calculate_match_score in the loop of lines 403-404, one
\* for each transaction.
RECURSIVE TransactionScores(_, _)
TransactionScores(attachment, transactions) ==
    IF transactions = <<>> THEN <<>>
    ELSE <<_calculate_match_score(Head(transactions), attachment)>>
           \o TransactionScores(attachment, Tail(transactions))

\* The result is [result |-> the position of the returned attachment,
\* scores |-> the scores computed on the way (none when PRIORITY 1 returns)].
find_attachment(transaction, attachments) ==
    LET by_reference ==
            ReferenceMatch(transaction.reference,
                           [i \in 1..Len(attachments) |-> attachments[i].data.reference])
        all_scores == AttachmentScores(transaction, attachments)
    IN  IF by_reference # 0 THEN [result |-> by_reference, scores |-> <<>>]
        ELSE [result |-> BestCandidate(all_scores), scores |-> all_scores]

\* A lookup of the transaction that goes by the scores only.
find_transaction_scores_only(attachment, transactions) ==
    LET all_scores == TransactionScores(attachment, transactions)
    IN  [result |-> BestCandidate(all_scores), scores |-> all_scores]

\* The result is [result |-> the position of the returned transaction,
\* scores |-> the scores computed on the way (none when PRIORITY 1 returns)].
find_transaction(attachment, transactions) ==
    LET by_reference ==
            ReferenceMatch(attachment.data.reference,
                           [i \in 1..Len(transactions) |-> transactions[i].reference])
        all_scores == TransactionScores(attachment, transactions)
    IN  IF by_reference # 0 THEN [result |-> by_reference, scores |-> <<>>]
        ELSE [result |-> BestCandidate(all_scores), scores |-> all_scores]

(***************************************************************************)
(* Spec: one call of find_attachment or of find_transaction                *)
(***************************************************************************)
Ref0012  == <<"0","0","1","2">>
Ref12    == <<"1","2">>
Ref1s2   == <<"1"," ","2">>
Ref13    == <<"1","3">>

Tx(amount, contact, reference) ==
    [amount |-> amount, date |-> DateStr(2024, 7, 15), contact |-> contact,
     reference |-> reference]

Att(total_amount, due_date, supplier, reference) ==
    [data |-> [total_amount |-> total_amount, reference |-> reference,
               due_date |-> due_date, invoicing_date |-> None, receiving_date |-> None,
               issuer |-> None, recipient |-> None, supplier |-> supplier]]

Near == DateStr(2024, 7, 30)
Far  == DateStr(2024, 7, 31)

FindTransactions ==
    { Tx(-1000000, None, None),     Tx(-1000000, JaneDoe, None),
      Tx(-1000000, None, Blank),    Tx(-1000000, JaneDoe, Blank),
      Tx(-1000000, None, Ref0012),  Tx(-1000000, JaneDoe, Ref0012),
      Tx(1500000, JaneDoe, None),   Tx(1500000, JaneDoe, Ref12) }

FindAttachments ==
    { Att(1000000, Near, JaneDoe, None),
      Att(1000000, Near, JaneDoeDesign, None),
      Att(1000000, Far,  JaneDoe, None),
      Att(1000000, Near, JohnSmith, None),
      Att(1000000, Far,  JohnSmith, None),
      Att(1500000, Near, JaneDoe, None),
      Att(1500000, Far,  JohnSmith, Ref12),
      Att(1000000, Near, JaneDoe, Ref1s2),
      Att(1500000, Far,  JohnSmith, Blank),
      Att(1000000, Near, JaneDoeDesign, Ref13) }

MaxCandidates == 2

RECURSIVE ListsUpTo(_, _)
ListsUpTo(S, n) ==
    IF n = 0 THEN {<<>>}
    ELSE LET shorter == ListsUpTo(S, n - 1)
         IN  shorter \cup {Append(l, x) : l \in shorter, x \in S}

Init ==
    /\ args \in {[fn |-> "find_attachment", transaction |-> t, attachments |-> l] :
                    t \in FindTransactions, l \in ListsUpTo(FindAttachments, MaxCandidates)}
           \cup {[fn |-> "find_transaction", attachment |-> a, transactions |-> l] :
                    a \in FindAttachments, l \in ListsUpTo(FindTransactions, MaxCandidates)}
    /\ ret = 0
    /\ pc = "start"
    /\ scores = <<>>

FindAttachment ==
    /\ pc = "start"
    /\ args.fn = "find_attachment"
    /\ LET found == find_attachment(args.transaction, args.attachments)
       IN  ret' = found.result /\ scores' = found.scores
    /\ pc' = "found"
    /\ UNCHANGED args

FindTransaction ==
    /\ pc = "start"
    /\ args.fn = "find_transaction"
    /\ LET found == find_transaction(args.attachment, args.transactions)
       IN  ret' = found.result /\ scores' = found.scores
    /\ pc' = "found"
    /\ UNCHANGED args

Next == FindAttachment \/ FindTransaction

Spec == Init /\ [][Next]_vars

(***************************************************************************)
(* Claims about _calculate_match_score (SpecScore)                         *)
(***************************************************************************)
AmountsPresent ==
    "amount" \in DOMAIN args.transaction /\ "total_amount" \in DOMAIN args.attachment.data

TxAbs  == Abs(args.transaction.amount)
AttAbs == Abs(args.attachment.data.total_amount)

\* Some extracted counterparty name of the attachment fuzzily matches the
\* contact of the transaction.
SomeNameMatches ==
    LET names == _get_attachment_counterparty_names(args.attachment)
    IN  \E i \in 1..Len(names) : _names_match(args.transaction.contact, names[i])

DatePoints ==
    IF Truthy(args.transaction.date)
       /\ _are_dates_compatible(args.transaction.date, args.attachment.data)
    THEN 2 ELSE 0

\* C6: when the amount gate passes, the transaction has a non-empty contact
\* and some extracted counterparty name fuzzily matches it by any rule of
\* names_match, counterparty_compatible is true and the counterparty adds
\* at least 1 point to the score.
C6_FuzzyMatchIsCompatible ==
    (/\ pc = "scored"
     /\ AmountsPresent
     /\ AmountMatches(args.transaction.amount, args.attachment.data.total_amount)
     /\ Truthy(args.transaction.contact)
     /\ SomeNameMatches)
        => (ret[2] = TRUE /\ ret[1] >= 3 + DatePoints + 1)

\* One amount ends in .99 and the other is the next whole number.
BankingPair(a, b) ==
    \/ a % Unit = 990000 /\ b = a + 10000
    \/ b % Unit = 990000 /\ a = b + 10000

\* C7: every pair of amounts that are both round to the cent, whose
\* magnitudes differ by exactly 0.01 and that is not X.99 against (X+1).00
\* is rejected with score 0, also when neither amount is a whole number.
C7_CentDifferenceRejected ==
    (/\ pc = "scored"
     /\ AmountsPresent
     /\ TxAbs % 10000 = 0 /\ AttAbs % 10000 = 0
     /\ Abs(AttAbs - TxAbs) = 10000
     /\ ~BankingPair(TxAbs, AttAbs))
        => ret[1] = 0

\* C10: the amount is a hard gate: the result is (0, false) whenever an
\* amount is absent or the magnitudes differ by more than the chosen
\* tolerance, whatever the date and counterparty signals, and the score is
\* at least 3 in every other case; so a candidate whose magnitude differs
\* by more than 0.011 is never kept by the scored fallback.
C10_AmountIsHardGate ==
    pc = "scored" =>
        /\ IF ~AmountsPresent THEN ret = <<0, FALSE>>
           ELSE IF Abs(AttAbs - TxAbs) > Tolerance(TxAbs, AttAbs) THEN ret = <<0, FALSE>>
           ELSE ret[1] >= 3
        /\ (AmountsPresent /\ Abs(AttAbs - TxAbs) > 11000) => ~Kept(ret)

\* C10 witness: the date is compatible and the contact equals a counterparty
\* name, the amounts differ by 0.01 only, the strict tolerance is chosen and
\* the pair is rejected.
C10_Witness ==
    /\ pc = "scored"
    /\ AmountsPresent
    /\ Abs(AttAbs - TxAbs) = 10000
    /\ Tolerance(TxAbs, AttAbs) = 2000
    /\ DatePoints = 2
    /\ SomeNameMatches
    /\ _normalize_name(args.transaction.contact) = _normalize_name(args.attachment.data.supplier)
    /\ ret = <<0, FALSE>>

(***************************************************************************)
(* Claims about find_attachment and find_transaction (Spec)                *)
(***************************************************************************)
QueriedRef ==
    IF args.fn = "find_attachment" THEN args.transaction.reference
    ELSE args.attachment.data.reference

NumCandidates ==
    IF args.fn = "find_attachment" THEN Len(args.attachments) ELSE Len(args.transactions)

CandidateRef(i) ==
    IF args.fn = "find_attachment" THEN args.attachments[i].data.reference
    ELSE args.transactions[i].reference

Candidate(i) ==
    IF args.fn = "find_attachment" THEN args.attachments[i] ELSE args.transactions[i]

CandidateScore(i) ==
    IF args.fn = "find_attachment"
    THEN _calculate_match_score(args.transaction, args.attachments[i])
    ELSE _calculate_match_score(args.transactions[i], args.attachment)

\* The candidates with a non-empty reference whose normalized form equals
\* the normalized reference of the queried record.
SameReference ==
    {i \in 1..NumCandidates :
        Truthy(CandidateRef(i))
        /\ _normalize_reference(CandidateRef(i)) = _normalize_reference(QueriedRef)}

MatchedByReference == Truthy(QueriedRef) /\ SameReference # {}

\* The candidates the scored fallback keeps, by the scores it computed:
\* score >= 5 with counterparty_compatible true.
KeptSet == {i \in 1..Len(scores) : scores[i][1] >= 5 /\ scores[i][2] = TRUE}

\* C1: when the queried record has a non-empty reference and some candidate
\* has a reference with the same normalized form, the result is the first
\* such candidate in input order, whatever the amounts, dates, names and
\* scores of the candidates.
C1_ReferenceShortCircuit ==
    (pc = "found" /\ MatchedByReference)
        => (ret \in SameReference /\ \A j \in SameReference : ret <= j)

\* C1 witness: two candidates share the normalized reference of the queried
\* record; the first is returned although it scores 0 and the second would
\* be kept by the scored fallback.
C1_Witness ==
    /\ pc = "found"
    /\ MatchedByReference
    /\ SameReference = {1, 2}
    /\ ret = 1
    /\ CandidateScore(1) = <<0, FALSE>>
    /\ Kept(CandidateScore(2))

\* C2: when no candidate matches by reference, the result is a kept
\* candidate (score >= 5 and counterparty_compatible) such that no kept
\* candidate scores strictly higher and no kept candidate of the same score
\* comes earlier in the list; the result is None exactly when no candidate
\* is kept.
C2_ScoredFallback ==
    (pc = "found" /\ ~MatchedByReference)
        => /\ Len(scores) = NumCandidates
           /\ \A i \in 1..NumCandidates : scores[i] = CandidateScore(i)
           /\ IF KeptSet = {} THEN ret = 0
              ELSE /\ ret \in KeptSet
                   /\ \A j \in KeptSet :
                          /\ scores[j][1] <= scores[ret][1]
                          /\ (scores[j][1] = scores[ret][1] => ret <= j)

\* C2 witness: two different kept candidates tie on the score and the one
\* that comes first in the list is returned.
C2_Witness ==
    /\ pc = "found"
    /\ ~MatchedByReference
    /\ KeptSet = {1, 2}
    /\ Candidate(1) # Candidate(2)
    /\ scores[1][1] = scores[2][1]
    /\ ret = 1

\* C3: a candidate whose reference normalizes to the empty string is never
\* returned as an exact-reference match for a queried record whose
\* reference normalizes to the empty string: such a pair is linked by the
\* scored fallback only, which returns kept candidates.
C3_EmptyReferencesNeverMatch ==
    (/\ pc = "found"
     /\ ret # 0
     /\ _normalize_reference(QueriedRef) = <<>>
     /\ _normalize_reference(CandidateRef(ret)) = <<>>)
        => Kept(CandidateScore(ret))

\* The extracted counterparty names of candidate attachment i.
CandidateNames(i) == _get_attachment_counterparty_names(args.attachments[i])

Contact == _normalize_name(args.transaction.contact)

\* Some counterparty name of attachment i strictly contains the contact.
ContainsContact(i) ==
    \E k \in 1..Len(CandidateNames(i)) :
        /\ _normalize_name(CandidateNames(i)[k]) # Contact
        /\ IsSubstr(Contact, _normalize_name(CandidateNames(i)[k]))

\* Some counterparty name of attachment i differs from the contact and one
\* of the two contains the other.
MoreOrLessComplete(i) ==
    \E k \in 1..Len(CandidateNames(i)) :
        /\ _normalize_name(CandidateNames(i)[k]) # Contact
        /\ \/ IsSubstr(Contact, _normalize_name(CandidateNames(i)[k]))
           \/ IsSubstr(_normalize_name(CandidateNames(i)[k]), Contact)

\* Attachment j has counterparty names and each is exactly the contact.
EqualsContact(j) ==
    /\ CandidateNames(j) # <<>>
    /\ \A k \in 1..Len(CandidateNames(j)) : _normalize_name(CandidateNames(j)[k]) = Contact

\* Attachments i and j carry the same amount and the same dates.
SameAmountAndDates(i, j) ==
    LET a == args.attachments[i].data
        b == args.attachments[j].data
    IN  /\ a.total_amount = b.total_amount
        /\ a.due_date = b.due_date
        /\ a.invoicing_date = b.invoicing_date
        /\ a.receiving_date = b.receiving_date

\* C11: among attachments with the same amount and date signals,
\* find_attachment does not return one whose counterparty name is exactly
\* the contact when another one's name strictly contains the contact, also
\* when the exactly-equal one comes first: when the amount matches it
\* returns an attachment with a more complete (or shorter) name, which
\* scores one point more than the exactly-equal one.
C11_MoreCompleteNameWins ==
    (/\ pc = "found"
     /\ args.fn = "find_attachment"
     /\ Truthy(args.transaction.contact)
     /\ ~MatchedByReference)
        => \A i, j \in 1..NumCandidates :
               (ContainsContact(i) /\ EqualsContact(j) /\ SameAmountAndDates(i, j))
                   => /\ ret # j
                      /\ AmountMatches(args.transaction.amount,
                                       args.attachments[i].data.total_amount)
                           => /\ ret # 0
                              /\ MoreOrLessComplete(ret)
                              /\ scores[ret][1] >= scores[i][1]
                              /\ scores[i][1] = scores[j][1] + 1

\* C11 witness: the attachment named exactly as the contact comes first,
\* the one whose name contains the contact comes second and is returned.
C11_Witness ==
    /\ pc = "found"
    /\ args.fn = "find_attachment"
    /\ ~MatchedByReference
    /\ NumCandidates = 2
    /\ EqualsContact(1) /\ ContainsContact(2) /\ SameAmountAndDates(1, 2)
    /\ Kept(scores[1])
    /\ ret = 2

(***************************************************************************)
(* SpecMirror: find_attachment(t, [a]) followed by find_transaction(a, [t]) *)
(***************************************************************************)
InitMirror ==
    /\ args \in {[fn |-> "mirror", transaction |-> t, attachment |-> a] :
                    t \in FindTransactions, a \in FindAttachments}
    /\ ret = <<>>
    /\ pc = "start"
    /\ scores = <<>>

\* find_attachment(t, [a]): ret takes the position returned (1 for a, 0 for
\* None), scores the results of the scored fallback when it ran.
MirrorFindAttachment ==
    /\ pc = "start"
    /\ LET found == find_attachment(args.transaction, <<args.attachment>>)
       IN  ret' = <<found.result>> /\ scores' = found.scores
    /\ pc' = "forward"
    /\ UNCHANGED args

\* find_transaction(a, [t]): its result and scores are appended.
MirrorFindTransaction ==
    /\ pc = "forward"
    /\ LET found == find_transaction(args.attachment, <<args.transaction>>)
       IN  ret' = Append(ret, found.result) /\ scores' = scores \o found.scores
    /\ pc' = "mirrored"
    /\ UNCHANGED args

NextMirror == MirrorFindAttachment \/ MirrorFindTransaction

SpecMirror == InitMirror /\ [][NextMirror]_vars

\* C12: find_attachment(t, [a]) returns a exactly when find_transaction(a, [t])
\* returns t, and the two calls decide the pair the same way: both by the
\* reference short-circuit (no score computed), or both by the scored
\* fallback with the same score.
C12_MirrorConsistency ==
    pc = "mirrored"
        => /\ (ret[1] = 1) <=> (ret[2] = 1)
           /\ \/ scores = <<>>
              \/ Len(scores) = 2 /\ scores[1] = scores[2]

\* C12 witness: a pair without a common reference that both calls accept
\* by its score.
C12_Witness ==
    /\ pc = "mirrored"
    /\ ret = <<1, 1>>
    /\ Len(scores) = 2
    /\ Kept(scores[1])

(***************************************************************************)
(* The counterparty decides (SpecScore)                                    *)
(***************************************************************************)
\* Some extracted counterparty name of the attachment, normalized, equals,
\* contains or is contained in the normalized contact of the transaction.
SomeNameEqualsOrContains ==
    LET names   == _get_attachment_counterparty_names(args.attachment)
        contact == _normalize_name(args.transaction.contact)
    IN  \E i \in 1..Len(names) :
            \/ _normalize_name(names[i]) = contact
            \/ IsSubstr(contact, _normalize_name(names[i]))
            \/ IsSubstr(_normalize_name(names[i]), contact)

====
